---- MODULE Spec2Model ----
(***************************************************************************)
(* adsys_mount: mounts the entries listed in a file through gio, one       *)
(* asynchronous mount operation per entry, and reports whether any of them *)
(* failed with an error other than "already mounted".                      *)
(*                                                                         *)
(* Modelled from src/internal/policies/mount/adsys_mount/src/main.rs.      *)
(* The gio mount backend is external: after an operation was started it    *)
(* may call ask_password_cb any number of times and calls the completion   *)
(* callback once. gio runs these callbacks from the main context; the      *)
(* model allows them at any point after the operation was started, which   *)
(* includes every schedule gio can produce. A prompt is synchronous: the   *)
(* backend emits the signal, the callback replies, the backend takes the   *)
(* replies; nothing else touches the operation in between, so the model    *)
(* runs no other step between the two.                                     *)
(***************************************************************************)
EXTENDS Integers, Sequences, FiniteSets, Bags, TLC

\* Largest number of lines of the mounts file.
MaxLines == 3
\* Largest number of times a backend that breaks its contract completes a
\* mount that has already completed.
MaxDuplicates == 1

\* usize::MAX, the value a wrapping `mounts_left -= 1` leaves at 0; it stands
\* for 2^64 - 1 and is only ever compared with 0.
UsizeMax == 2147483647

----------------------------------------------------------------------------
\* Values

Some(v) == [some |-> TRUE, v |-> v]
None == [some |-> FALSE]

\* enum MountStatus
Done == [tag |-> "Done"]
Asked == [tag |-> "Asked"]
Error(e) == [tag |-> "Error", e |-> e]

\* The glib errors a mount can end with, by their gio::IOErrorEnum code.
IOErrors == {"AlreadyMounted", "Failed"}

\* glib::Error::matches
matches(e, kind) == e = kind

\* Result<(), glib::Error> handed to the completion callback.
MountResults == {[ok |-> TRUE]} \cup {[ok |-> FALSE, e |-> e] : e \in IOErrors}

\* A line of the mounts file is a sequence of tokens: the empty line, a URI,
\* or the anonymous marker followed by a URI.
AnonymousPrefix == "[anonymous]"
Uri(k) == "smb://host/share" \o ToString(k)
LinesAt(k) == {<<>>, <<Uri(k)>>, <<AnonymousPrefix, Uri(k)>>}
Contents(n) == {c \in [1..n -> UNION {LinesAt(k) : k \in 1..n}] :
                   \A k \in 1..n : c[k] \in LinesAt(k)}
\* fs::read_to_string: an io error, or the content split at '\n'.
ReadResults == {[ok |-> FALSE]} \cup
               {[ok |-> TRUE, lines |-> c] : c \in UNION {Contents(n) : n \in 0..MaxLines}}

\* str::strip_prefix
strip_prefix(p, prefix) ==
    IF Len(p) > 0 /\ p[1] = prefix THEN Some(Tail(p)) ELSE None

\* struct MountEntry
MountEntry(p) ==
    LET s == strip_prefix(p, AnonymousPrefix)
    IN  IF s.some THEN [mount_path |-> s.v, is_anonymous |-> TRUE]
                  ELSE [mount_path |-> p, is_anonymous |-> FALSE]

\* parse_entries, after the file was read: one entry per non-empty line.
RECURSIVE parse_entries(_)
parse_entries(lines) ==
    IF lines = <<>> THEN <<>>
    ELSE IF Len(Head(lines)) = 0 THEN parse_entries(Tail(lines))
    ELSE <<MountEntry(Head(lines))>> \o parse_entries(Tail(lines))

\* A line of the log: its level, its text and the mount path it is about.
Line(level, text, path) == [level |-> level, text |-> text, path |-> path]

\* The log with one more line. The log is kept as the bag of its lines: how
\* often each was written, not in which order.
Log(l, line) == l (+) SetToBag({line})

\* struct Msg
Msg(path, status) == [path |-> path, status |-> status]

----------------------------------------------------------------------------
\* The credential callback

\* gio::MountOperation as handle_mount creates it: the anonymous flag, the
\* data stored under the key "state", the replies given during the
\* ask-password signal being emitted and, on the backend's side, how often it
\* was told to go on anonymously.
new_mount_op(entry) ==
    [anonymous |-> entry.is_anonymous,
     state |-> None,
     replies |-> <<>>,
     anonymous_tries |-> 0]

\* The mount handle_mount starts for entry: the path, the MountOperation for
\* as long as the mount is in progress, and the result once it has ended.
new_mount(entry) ==
    [path |-> entry.mount_path,
     mount_op |-> Some(new_mount_op(entry)),
     result |-> None]

\* A reply of Handled lets the backend go on: anonymously when the operation
\* is anonymous and the prompt offered it, with the Kerberos ticket otherwise.
ProceedsAnonymously(op, p, r) == r = "Handled" /\ op.anonymous /\ p.anonymous_supported
ProceedsWithTicket(op, p, r) == r = "Handled" /\ ~(op.anonymous /\ p.anonymous_supported)

\* The backend takes the replies to prompt p once the signal has been emitted.
take_replies(op, p) ==
    [op EXCEPT !.replies = <<>>,
               !.anonymous_tries =
                   @ + Cardinality({k \in 1..Len(op.replies) :
                                       ProceedsAnonymously(op, p, op.replies[k])})]

\* MountOperation::reply
reply(op, r) == [op EXCEPT !.replies = Append(@, r)]

\* MountOperation::set_data("state", v)
set_data(op, v) == [op EXCEPT !.state = Some(v)]

\* ask_password_cb, were an anonymous operation that has asked once to be
\* denied at every later prompt, whatever the prompt offers.
ask_password_cb_denies_after_asked(op, anonymous_supported, krb5ccname) ==
    IF op.anonymous /\ op.state = Some(Asked) THEN reply(op, "Aborted")
    ELSE IF op.anonymous /\ anonymous_supported
    THEN reply(set_data(op, Asked), "Handled")
    ELSE IF krb5ccname THEN reply(op, "Handled")
    ELSE reply(op, "Aborted")

\* ask_password_cb, were a second anonymous prompt to fall through to the
\* Kerberos check.
ask_password_cb_falls_through(op, anonymous_supported, krb5ccname) ==
    IF op.anonymous /\ anonymous_supported /\ ~op.state.some
    THEN reply(set_data(op, Asked), "Handled")
    ELSE IF krb5ccname THEN reply(op, "Handled")
    ELSE reply(op, "Aborted")

\* ask_password_cb, were it to look at the flags of the prompt only and not
\* at the anonymous flag of the operation.
ask_password_cb_flags_only(op, anonymous_supported, krb5ccname) ==
    IF anonymous_supported
    THEN IF op.state.some
         THEN IF op.state.v = Asked THEN reply(op, "Aborted") ELSE op
         ELSE reply(set_data(op, Asked), "Handled")
    ELSE IF krb5ccname THEN reply(op, "Handled")
    ELSE reply(op, "Aborted")

\* ask_password_cb, were it to forget to store that it has asked.
ask_password_cb_forgets(op, anonymous_supported, krb5ccname) ==
    IF op.anonymous /\ anonymous_supported
    THEN IF op.state.some
         THEN IF op.state.v = Asked THEN reply(op, "Aborted") ELSE op
         ELSE reply(op, "Handled")
    ELSE IF krb5ccname THEN reply(op, "Handled")
    ELSE reply(op, "Aborted")

\* ask_password_cb, were it to store another MountStatus than the one it
\* looks for.
ask_password_cb_stores_done(op, anonymous_supported, krb5ccname) ==
    IF op.anonymous /\ anonymous_supported
    THEN IF op.state.some
         THEN IF op.state.v = Asked THEN reply(op, "Aborted") ELSE op
         ELSE reply(set_data(op, Done), "Handled")
    ELSE IF krb5ccname THEN reply(op, "Handled")
    ELSE reply(op, "Aborted")

\* ask_password_cb
ask_password_cb(op, anonymous_supported, krb5ccname) ==
    IF op.anonymous /\ anonymous_supported
    THEN IF op.state.some
         THEN IF op.state.v = Asked THEN reply(op, "Aborted") ELSE op
         ELSE reply(set_data(op, Asked), "Handled")
    ELSE IF krb5ccname THEN reply(op, "Handled")
    ELSE reply(op, "Aborted")

\* The mount m has finished with result r: gio lets go of the
\* MountOperation, and with it of the data "state".
finished(m, r) == [m EXCEPT !.result = Some(r), !.mount_op = None]

\* mount_handled_cb builds the message for the result r of the mount.
mount_handled_msg(m, r) ==
    IF r.ok THEN Msg(m.path, Done) ELSE Msg(m.path, Error(r.e))

----------------------------------------------------------------------------
\* The receiver's closure and the evaluation of the failures

\* `mounts_left -= 1` on a usize, in a build without overflow checks.
sub_one(n) == IF n = 0 THEN UsizeMax ELSE n - 1

\* closure_errors, were a failure put in front of the failures held.
closure_errors_prepend(errors, x) ==
    IF x.status.tag = "Error" THEN <<x>> \o errors ELSE errors

\* What the closure logs and stores for message x, before it counts it.
closure_log(l, x) ==
    IF x.status = Done
    THEN Log(l, Line("debug", "Mounting was successful", x.path))
    ELSE IF x.status.tag = "Error"
    THEN Log(l, Line("warn", "Failed when mounting", x.path))
    ELSE l

closure_errors(errors, x) ==
    IF x.status.tag = "Error" THEN Append(errors, x) ELSE errors

\* closure_continue, were the closure never to quit the loop.
closure_continue_always(left) == TRUE

\* glib::Continue(..): TRUE keeps the receiver attached; at 0 the closure
\* quits the main loop and detaches.
closure_continue(left) == left # 0

\* closure, were it to stop the loop at the first failure that is not
\* "already mounted".
closure_fail_fast(a, x) ==
    LET left == sub_one(a.mounts_left)
        fatal == x.status.tag = "Error" /\ ~matches(x.status.e, "AlreadyMounted")
    IN  [mounts_left |-> left,
         mu |-> closure_errors(a.mu, x),
         log |-> closure_log(a.log, x),
         quit |-> a.quit \/ ~closure_continue(left) \/ fatal]

\* closure, were it to count only the mounts that succeeded.
closure_skip_errors(a, x) ==
    LET left == IF x.status.tag = "Error" THEN a.mounts_left ELSE sub_one(a.mounts_left)
    IN  [mounts_left |-> left,
         mu |-> closure_errors(a.mu, x),
         log |-> closure_log(a.log, x),
         quit |-> a.quit \/ ~closure_continue(left)]

\* closure, were it to drop a message about a path it has already written a
\* line about.
closure_dedup(a, x) ==
    IF CopiesIn(Line("debug", "Mounting was successful", x.path), a.log)
       + CopiesIn(Line("warn", "Failed when mounting", x.path), a.log) > 0
    THEN a
    ELSE [mounts_left |-> sub_one(a.mounts_left),
          mu |-> closure_errors(a.mu, x),
          log |-> closure_log(a.log, x),
          quit |-> a.quit \/ ~closure_continue(sub_one(a.mounts_left))]

\* The closure attached to the receiver, as a function of the aggregate
\* a = [mounts_left, mu, log, quit] and of the message x.
closure(a, x) ==
    LET left == sub_one(a.mounts_left)
    IN  [mounts_left |-> left,
         mu |-> closure_errors(a.mu, x),
         log |-> closure_log(a.log, x),
         quit |-> a.quit \/ ~closure_continue(left)]

\* The main loop hands the messages msgs to the closure, oldest first, until
\* the closure quits it.
RECURSIVE run_loop(_, _)
run_loop(a, msgs) ==
    IF msgs = <<>> \/ a.quit THEN a
    ELSE run_loop(closure(a, Head(msgs)), Tail(msgs))

\* had_error, were the loop to stop after the first failure.
had_error_first_only(errors, had) ==
    IF errors = <<>> THEN had
    ELSE Head(errors).status.tag = "Error"
         /\ ~matches(Head(errors).status.e, "AlreadyMounted")

\* had_error, were each failure to overwrite the flag instead of raising it.
RECURSIVE had_error_last_wins(_, _)
had_error_last_wins(errors, had) ==
    IF errors = <<>> THEN had
    ELSE had_error_last_wins(Tail(errors),
                             Head(errors).status.tag = "Error"
                             /\ ~matches(Head(errors).status.e, "AlreadyMounted"))

\* The loop over the failures after g_loop.run() returned: had_error.
RECURSIVE had_error(_, _)
had_error(errors, had) ==
    IF errors = <<>> THEN had
    ELSE LET err == Head(errors)
         IN  had_error(Tail(errors),
                       IF err.status.tag = "Error" /\ ~matches(err.status.e, "AlreadyMounted")
                       THEN TRUE ELSE had)

\* evaluate_log, were the loop over the failures to log nothing.
evaluate_log_silent(l, errors) == l

\* What the same loop logs: one warning per failure.
RECURSIVE evaluate_log(_, _)
evaluate_log(l, errors) ==
    IF errors = <<>> THEN l
    ELSE evaluate_log(
             IF Head(errors).status.tag = "Error"
             THEN Log(l, Line("warn", "Mount process failed", Head(errors).path))
             ELSE l,
             Tail(errors))

\* verdict, were every recorded failure to fail the run.
verdict_any_failure(errors) == IF Len(errors) # 0 THEN "MountError" ELSE "Ok"

\* main's return value after the loop.
verdict(errors) == IF had_error(errors, FALSE) THEN "MountError" ELSE "Ok"

----------------------------------------------------------------------------
VARIABLES
    pc,             \* where main is: "parse", "dispatch", "run", "done", "panic"
    content,        \* what reading the mounts file gives
    parsed_entries, \* the entries main has not handled yet
    mounts,         \* the mounts started, in dispatch order
    chan,           \* the messages sent on the glib channel and not yet received
    rx,             \* the receiver: "none", "created", "attached", "removed"
    mounts_left,    \* usize counter of the receiver's closure
    mu,             \* Vec<Msg> behind the mutex: the failed mounts
    loop_quit,      \* g_loop.quit() was called
    result,         \* what main returned: "none", "Ok", "ParseError", "MountError"
    log,            \* the lines logged about errors and about the outcome of a
                    \* mount, as a bag
    prompt,         \* the password prompt being raised: None, or the operation
                    \* asked, the flags of the prompt, whether KRB5CCNAME was
                    \* set and the data "state" held when it was raised
    duplicates      \* number of completions of a mount already completed

vars == <<pc, content, parsed_entries, mounts, chan, rx, mounts_left, mu,
          loop_quit, result, log, prompt, duplicates>>

Init ==
    /\ pc = "parse"
    /\ content \in ReadResults
    /\ parsed_entries = <<>>
    /\ mounts = <<>>
    /\ chan = <<>>
    /\ rx = "none"
    /\ mounts_left = 0
    /\ mu = <<>>
    /\ loop_quit = FALSE
    /\ result = "none"
    /\ log = EmptyBag
    /\ prompt = None
    /\ duplicates = 0

----------------------------------------------------------------------------
\* main

\* Parse, were main to go on with no entries when the file cannot be parsed.
Parse_ignores_error ==
    /\ pc = "parse"
    /\ ~prompt.some
    /\ parsed_entries' = IF content.ok THEN parse_entries(content.lines) ELSE <<>>
    /\ mounts_left' = Len(parsed_entries')
    /\ rx' = "created"
    /\ pc' = "dispatch"
    /\ content' = [ok |-> content.ok]
    /\ UNCHANGED <<mounts, chan, mu, loop_quit, result, log, prompt, duplicates>>

\* Lines 58-71: parse the file; on an error return ParseError, else create
\* the channel and count the entries. The content read is dropped when
\* parse_entries returns; what is kept is whether the read succeeded.
Parse ==
    /\ pc = "parse"
    /\ ~prompt.some
    /\ IF content.ok
       THEN /\ parsed_entries' = parse_entries(content.lines)
            /\ mounts_left' = Len(parse_entries(content.lines))
            /\ rx' = "created"
            /\ pc' = "dispatch"
            /\ UNCHANGED <<result, log>>
       ELSE /\ log' = Log(log, Line("error", "Error when parsing entries", <<>>))
            /\ result' = "ParseError"
            /\ pc' = "done"
            /\ UNCHANGED <<parsed_entries, mounts_left, rx>>
    /\ content' = [ok |-> content.ok]
    /\ UNCHANGED <<mounts, chan, mu, loop_quit, prompt, duplicates>>

\* Lines 73-75 and handle_mount: start the mount of the next entry.
HandleMount ==
    /\ pc = "dispatch"
    /\ ~prompt.some
    /\ parsed_entries # <<>>
    /\ mounts' = Append(mounts, new_mount(Head(parsed_entries)))
    /\ parsed_entries' = Tail(parsed_entries)
    /\ UNCHANGED <<pc, content, chan, rx, mounts_left, mu, loop_quit, result, log, prompt, duplicates>>

\* Lines 78-108: every entry was handled; attach the receiver and run the
\* main loop.
Attach ==
    /\ pc = "dispatch"
    /\ ~prompt.some
    /\ parsed_entries = <<>>
    /\ rx' = "attached"
    /\ pc' = "run"
    /\ UNCHANGED <<content, parsed_entries, mounts, chan, mounts_left, mu, loop_quit,
                   result, log, prompt, duplicates>>

\* Lines 88-106: the main loop hands the oldest message to the closure. At
\* mounts_left = 0 the subtraction panics in a build with overflow checks
\* and wraps in one without.
Receive ==
    /\ pc = "run"
    /\ ~prompt.some
    /\ rx = "attached"
    /\ chan # <<>>
    /\ LET x == Head(chan)
           a == closure([mounts_left |-> mounts_left, mu |-> mu, log |-> log,
                         quit |-> loop_quit], x)
       IN  \E overflow_checks \in (IF mounts_left = 0 THEN BOOLEAN ELSE {FALSE}) :
               IF overflow_checks
               THEN /\ pc' = "panic"
                    /\ mu' = a.mu
                    /\ log' = a.log
                    /\ UNCHANGED <<mounts_left, loop_quit, rx>>
               ELSE /\ mounts_left' = a.mounts_left
                    /\ mu' = a.mu
                    /\ log' = a.log
                    /\ loop_quit' = a.quit
                    /\ rx' = IF a.quit THEN "removed" ELSE rx
                    /\ pc' = pc
    /\ chan' = Tail(chan)
    /\ UNCHANGED <<content, parsed_entries, mounts, result, prompt, duplicates>>

\* Lines 108-129: g_loop.run() returns once quit was called; main evaluates
\* the failures and returns.
Evaluate ==
    /\ pc = "run"
    /\ ~prompt.some
    /\ loop_quit
    /\ log' = evaluate_log(log, mu)
    /\ result' = verdict(mu)
    /\ pc' = "done"
    /\ UNCHANGED <<content, parsed_entries, mounts, chan, rx, mounts_left, mu, loop_quit,
                   prompt, duplicates>>

----------------------------------------------------------------------------
\* The mount backend

Running == pc \in {"dispatch", "run"}

\* AskPassword, were the data "state" kept in one place for all operations
\* instead of on the MountOperation.
AskPassword_shared_state(i) ==
    /\ i \in DOMAIN mounts
    /\ Running
    /\ ~prompt.some
    /\ ~mounts[i].result.some
    /\ \E anonymous_supported \in BOOLEAN, krb5ccname \in BOOLEAN :
          LET asked == \E j \in DOMAIN mounts :
                           mounts[j].mount_op.some /\ mounts[j].mount_op.v.state.some
              shared == IF asked THEN Some(Asked) ELSE None
              op == ask_password_cb([mounts[i].mount_op.v EXCEPT !.state = shared],
                                    anonymous_supported, krb5ccname)
          IN  /\ mounts' = [j \in DOMAIN mounts |->
                               IF j = i THEN [mounts[j] EXCEPT !.mount_op.v = op]
                               ELSE IF mounts[j].mount_op.some
                               THEN [mounts[j] EXCEPT !.mount_op.v.state = op.state]
                               ELSE mounts[j]]
              /\ prompt' = Some([op |-> i, anonymous_supported |-> anonymous_supported,
                                 krb5ccname |-> krb5ccname, state |-> shared])
    /\ UNCHANGED <<pc, content, parsed_entries, chan, rx, mounts_left, mu, loop_quit,
                   result, log, duplicates>>

\* The backend asks for a password for operation i: gio emits ask-password
\* and ask_password_cb runs.
AskPassword(i) ==
    /\ i \in DOMAIN mounts
    /\ Running
    /\ ~prompt.some
    /\ ~mounts[i].result.some
    /\ \E anonymous_supported \in BOOLEAN, krb5ccname \in BOOLEAN :
           /\ mounts' = [mounts EXCEPT ![i].mount_op.v =
                  ask_password_cb(@, anonymous_supported, krb5ccname)]
           /\ prompt' = Some([op |-> i, anonymous_supported |-> anonymous_supported,
                              krb5ccname |-> krb5ccname,
                              state |-> mounts[i].mount_op.v.state])
    /\ UNCHANGED <<pc, content, parsed_entries, chan, rx, mounts_left, mu, loop_quit,
                   result, log, duplicates>>

\* The signal has been emitted: the backend takes the replies.
Replied ==
    /\ prompt.some
    /\ mounts' = [mounts EXCEPT ![prompt.v.op].mount_op.v = take_replies(@, prompt.v)]
    /\ prompt' = None
    /\ UNCHANGED <<pc, content, parsed_entries, chan, rx, mounts_left, mu, loop_quit,
                   result, log, duplicates>>

\* MountHandled, were a message sent before the receiver is attached to be
\* dropped.
MountHandled_needs_receiver(i) ==
    /\ i \in DOMAIN mounts
    /\ Running
    /\ ~prompt.some
    /\ ~mounts[i].result.some
    /\ \E r \in MountResults :
           /\ mounts' = [mounts EXCEPT ![i] = finished(@, r)]
           /\ chan' = IF rx = "attached"
                      THEN Append(chan, mount_handled_msg(mounts[i], r))
                      ELSE chan
    /\ UNCHANGED <<pc, content, parsed_entries, rx, mounts_left, mu, loop_quit, result,
                   log, prompt, duplicates>>

\* Lines 177-193: the backend completes operation i with result r, once;
\* the callback sends the message, which fails once the receiver is gone.
MountHandled(i) ==
    /\ i \in DOMAIN mounts
    /\ Running
    /\ ~prompt.some
    /\ ~mounts[i].result.some
    /\ \E r \in MountResults :
           /\ mounts' = [mounts EXCEPT ![i] = finished(@, r)]
           /\ IF rx # "removed"
              THEN /\ chan' = Append(chan, mount_handled_msg(mounts[i], r))
                   /\ UNCHANGED log
              ELSE /\ log' = Log(log, Line("error", "Failed to send message in the channel",
                                              mounts[i].path))
                   /\ UNCHANGED chan
    /\ UNCHANGED <<pc, content, parsed_entries, rx, mounts_left, mu, loop_quit, result,
                   prompt, duplicates>>

Prompt == \E i \in 1..MaxLines : AskPassword(i)

Complete == \E i \in 1..MaxLines : MountHandled(i)

Next == Parse \/ HandleMount \/ Attach \/ Receive \/ Evaluate \/ Prompt \/ Replied \/ Complete

Spec == Init /\ [][Next]_vars

\* A backend that breaks its contract: it completes mount i, which has
\* completed already, once more with the same result, so that the message
\* about it is sent again.
Redeliver(i) ==
    /\ i \in DOMAIN mounts
    /\ Running
    /\ ~prompt.some
    /\ mounts[i].result.some
    /\ duplicates < MaxDuplicates
    /\ duplicates' = duplicates + 1
    /\ IF rx # "removed"
       THEN /\ chan' = Append(chan, mount_handled_msg(mounts[i], mounts[i].result.v))
            /\ UNCHANGED log
       ELSE /\ log' = Log(log, Line("error", "Failed to send message in the channel",
                                       mounts[i].path))
            /\ UNCHANGED chan
    /\ UNCHANGED <<pc, content, parsed_entries, mounts, rx, mounts_left, mu, loop_quit,
                   result, prompt>>

Duplicate == \E i \in 1..MaxLines : Redeliver(i)

\* The program with a backend that may complete a mount more than once.
DupSpec == Init /\ [][Next \/ Duplicate]_vars

\* The steps of main and of the main loop it runs.
Main == Parse \/ HandleMount \/ Attach \/ Receive \/ Evaluate

\* main and the main loop run on: a step of main that can be taken is taken.
\* The backend takes the replies to a prompt it raised, and completes every
\* mount it was asked for, however often it prompts first.
FairSpec ==
    /\ Spec
    /\ WF_vars(Main)
    /\ WF_vars(Replied)
    /\ SF_vars(Complete)

----------------------------------------------------------------------------
\* Properties of the run as a whole

\* The number of entries of the run: those handled and those still to handle.
Entries == Len(mounts) + Len(parsed_entries)

\* The number of lines the closure wrote about path, one per message about
\* it that it was handed, and the number of all lines it wrote.
TimesReceived(path) ==
    CopiesIn(Line("debug", "Mounting was successful", path), log)
    + CopiesIn(Line("warn", "Failed when mounting", path), log)
Received ==
    BagCardinality(log) - BagCardinality(
        [l \in {x \in BagToSet(log) :
                   x.text \notin {"Mounting was successful", "Failed when mounting"}}
            |-> log[l]])

\* The mount of operation i has ended, and how.
Succeeded(i) == mounts[i].result.some /\ mounts[i].result.v.ok
Failed(i) == mounts[i].result.some /\ ~mounts[i].result.v.ok
AlreadyMounted(i) == Failed(i) /\ mounts[i].result.v.e = "AlreadyMounted"
Fatal(i) == Failed(i) /\ mounts[i].result.v.e # "AlreadyMounted"

\* main has evaluated the failures and returned.
Decided == pc = "done" /\ result \in {"Ok", "MountError"}

\* C1: once every outcome was recorded and main has returned, a failure
\* with an error other than AlreadyMounted among the outcomes makes the
\* return value MountError, whatever the other outcomes are.
C1_FatalFailureFails ==
    (Decided /\ \E i \in DOMAIN mounts : Fatal(i)) => result = "MountError"

\* A run of three mounts, one succeeded, one already mounted, one failed
\* otherwise, has returned MountError.
C1_Witness ==
    /\ Decided /\ result = "MountError"
    /\ \E i, j, k \in DOMAIN mounts : Succeeded(i) /\ AlreadyMounted(j) /\ Fatal(k)

\* C2: once main has returned, if every mount succeeded or failed with
\* AlreadyMounted, the return value is Ok.
C2_OnlyAlreadyMountedSucceeds ==
    (Decided /\ \A i \in DOMAIN mounts : Succeeded(i) \/ AlreadyMounted(i))
        => result = "Ok"

\* A run with a mount that succeeded and one that was already mounted has
\* returned Ok.
C2_Witness ==
    /\ Decided /\ result = "Ok"
    /\ \E i, j \in DOMAIN mounts : Succeeded(i) /\ AlreadyMounted(j)

\* The messages of the run's outcomes, sent in the order given by the
\* permutation order of the operations.
Outcomes(order) ==
    [k \in 1..Len(mounts) |->
        mount_handled_msg(mounts[order[k]], mounts[order[k]].result.v)]

\* What main returns when the main loop receives msgs.
ReturnsOn(msgs) ==
    verdict(run_loop([mounts_left |-> Len(msgs), mu |-> <<>>, log |-> EmptyBag,
                      quit |-> FALSE], msgs).mu)

\* C3: the return value of the run is the one main returns for the same
\* outcomes delivered in any other order.
C3_OrderIndependent ==
    Decided => \A order \in Permutations(1..Len(mounts)) :
                   ReturnsOn(Outcomes(order)) = result

\* A run has returned whose outcomes arrived against the dispatch order: the
\* second operation's failure, which is fatal, before the first one's, which
\* is not.
C3_Witness ==
    /\ Decided /\ Len(mounts) >= 2
    /\ AlreadyMounted(1) /\ Fatal(2)
    /\ Len(mu) >= 2
    /\ mu[1].path = mounts[2].path
    /\ mu[2].path = mounts[1].path

\* C4: main returns a verdict only once the counter is 0, every operation
\* has ended and the closure was handed every outcome; and as long as the
\* counter is above 0 the loop is not quit, the receiver stays attached and
\* there is no verdict, also when a failure other than AlreadyMounted has
\* been recorded.
C4_CollectAllThenDecide ==
    /\ Decided =>
           /\ mounts_left = 0
           /\ chan = <<>>
           /\ Received = Entries
           /\ \A i \in DOMAIN mounts : mounts[i].result.some
    /\ (pc = "run" /\ mounts_left > 0) =>
           ~loop_quit /\ rx = "attached" /\ result = "none"
    /\ result \in {"Ok", "MountError"} => loop_quit

\* A failure other than AlreadyMounted was recorded first, with two mounts
\* outstanding: the loop runs on, and the outcome of a mount that ended after
\* it waits in the channel.
C4_Witness ==
    /\ pc = "run" /\ ~loop_quit /\ result = "none"
    /\ Len(mu) = 1 /\ mu[1].status.e # "AlreadyMounted"
    /\ Received = 1 /\ mounts_left = 2
    /\ Len(chan) = 1 /\ chan[1].status = Done

\* C5 (state part): once main has counted the entries, the counter is
\* between 0 and the number of entries and is that number less the outcomes
\* the closure was handed; no outcome was handed to it twice, and at the end
\* each was handed to it once.
C5_Counted ==
    pc # "parse" =>
        /\ mounts_left \in 0..Entries
        /\ mounts_left + Received = Entries
        /\ \A i \in DOMAIN mounts :
               /\ TimesReceived(mounts[i].path) <= 1
               /\ Decided => TimesReceived(mounts[i].path) = 1

\* C5 (step part): the counter never increases, it decreases by exactly one
\* when a message leaves the channel and not otherwise, and it stays 0 once
\* it is 0.
C5_Step ==
    pc # "parse" =>
        /\ mounts_left' <= mounts_left
        /\ (Len(chan') < Len(chan)) <=> (mounts_left' = mounts_left - 1)
        /\ mounts_left' # mounts_left => mounts_left' = mounts_left - 1
        /\ mounts_left = 0 => mounts_left' = 0

\* C5: every outcome is consumed exactly once and the counter decreases one
\* by one to 0, which it reaches once.
C5_ExactlyOnce == []C5_Counted /\ [][C5_Step]_vars

\* A run of at least two mounts has counted down to 0.
C5_Witness ==
    /\ pc = "run" /\ loop_quit /\ mounts_left = 0
    /\ Entries >= 2 /\ Received = Entries

\* C6: under FairSpec, a run whose file gave at least one entry comes to
\* return Ok or MountError, the closure having quit the loop with the counter
\* at 0.
C6_Terminates ==
    (pc = "dispatch" /\ Entries >= 1) ~> (Decided /\ loop_quit /\ mounts_left = 0)

\* A run of as many mounts as the file may list has returned.
C6_Witness == Decided /\ Len(mounts) = MaxLines /\ loop_quit

----------------------------------------------------------------------------
\* Properties of the credential callback. They are stated on the states in
\* which a prompt is being raised: ask_password_cb has run and the backend has
\* not yet taken the replies.

Prompted == mounts[prompt.v.op].mount_op.v
Unasked == None
AskedOnce == Some(Asked)

\* C7: a prompt that offers anonymous access to an anonymous operation is
\* answered Handled, with the state going from Unasked to AskedOnce, when
\* the backend was not yet told to go on anonymously on this operation, and
\* is answered Aborted when it was, whether KRB5CCNAME is set or not.
C7_AnonymousOnceThenAbort ==
    (prompt.some /\ Prompted.anonymous /\ prompt.v.anonymous_supported) =>
        IF Prompted.anonymous_tries = 0
        THEN /\ Prompted.replies = <<"Handled">>
             /\ prompt.v.state = Unasked
             /\ Prompted.state = AskedOnce
        ELSE /\ Prompted.replies = <<"Aborted">>
             /\ prompt.v.state = AskedOnce
             /\ Prompted.state = AskedOnce

\* A second prompt offering anonymous access is answered Aborted although
\* KRB5CCNAME is set.
C7_Witness ==
    /\ prompt.some /\ Prompted.anonymous /\ prompt.v.anonymous_supported
    /\ Prompted.anonymous_tries = 1
    /\ prompt.v.krb5ccname
    /\ Prompted.replies = <<"Aborted">>

\* C8: a prompt on an operation that is not anonymous is answered Handled
\* when KRB5CCNAME is set and Aborted when it is not, whatever the flags of
\* the prompt, and the data "state" stays as it was, which is unset.
C8_TicketRule ==
    (prompt.some /\ ~Prompted.anonymous) =>
        /\ Prompted.replies = <<IF prompt.v.krb5ccname THEN "Handled" ELSE "Aborted">>
        /\ \A k \in 1..Len(Prompted.replies) :
               ~ProceedsAnonymously(Prompted, prompt.v, Prompted.replies[k])
        /\ Prompted.state = prompt.v.state
        /\ Prompted.state = Unasked

\* A prompt offering anonymous access on an operation that is not anonymous
\* is answered with the ticket.
C8_Witness ==
    /\ prompt.some /\ ~Prompted.anonymous
    /\ prompt.v.anonymous_supported /\ prompt.v.krb5ccname
    /\ ProceedsWithTicket(Prompted, prompt.v, Prompted.replies[1])

\* The number of times the backend was told to go on anonymously on
\* operation i, the replies it has not taken yet included.
AnonymousTries(i) ==
    LET op == mounts[i].mount_op.v
    IN  op.anonymous_tries +
        (IF prompt.some /\ prompt.v.op = i
         THEN Cardinality({k \in 1..Len(op.replies) :
                              ProceedsAnonymously(op, prompt.v, op.replies[k])})
         ELSE 0)

\* C9 (state part): the backend is told to go on anonymously at most once per
\* operation, and the data "state" is unset or Asked.
C9_AtMostOnce ==
    \A i \in DOMAIN mounts :
        mounts[i].mount_op.some =>
            /\ AnonymousTries(i) <= 1
            /\ mounts[i].mount_op.v.state \in {Unasked, AskedOnce}

\* C9 (step part): while the mount of an operation has not ended, its data
\* "state" changes only from unset to Asked.
C9_Step ==
    \A i \in DOMAIN mounts :
        (mounts'[i].mount_op.some /\ mounts'[i].mount_op.v.state # mounts[i].mount_op.v.state) =>
            (mounts[i].mount_op.v.state = Unasked /\ mounts'[i].mount_op.v.state = AskedOnce)

\* C9: over the prompts of one operation the callback offers anonymous access
\* at most once, and the state only moves from Unasked to AskedOnce.
C9_AnonymousAtMostOnce == []C9_AtMostOnce /\ [][C9_Step]_vars

\* An operation that went on anonymously once is prompted again and is
\* refused, with no ticket around.
C9_Witness ==
    /\ prompt.some /\ prompt.v.anonymous_supported /\ ~prompt.v.krb5ccname
    /\ AnonymousTries(prompt.v.op) = 1
    /\ prompt.v.state = AskedOnce
    /\ Prompted.replies = <<"Aborted">>

\* C10: whenever the callback has run, it has replied exactly once.
C10_ExactlyOneReply == prompt.some => Len(Prompted.replies) = 1

\* The callback has replied once to a prompt without the anonymous offer on
\* an anonymous operation that had already asked.
C10_Witness ==
    /\ prompt.some /\ Prompted.anonymous /\ ~prompt.v.anonymous_supported
    /\ prompt.v.state = AskedOnce
    /\ Len(Prompted.replies) = 1

----------------------------------------------------------------------------
\* Properties of concurrent mounts

\* C11 (state part): the data "state" a prompt finds on its operation is
\* Asked exactly when the backend was told to go on anonymously on that same
\* operation, whatever the other operations were asked.
C11_OwnState ==
    prompt.some => (prompt.v.state = AskedOnce <=> Prompted.anonymous_tries = 1)

\* C11 (step part): a prompt on one operation leaves every other mount as it
\* was.
C11_Step ==
    (~prompt.some /\ prompt'.some) =>
        \A j \in DOMAIN mounts : j # prompt'.v.op => mounts'[j] = mounts[j]

\* C11: the state of the negotiation is kept per operation: a prompt on one
\* operation neither reads nor changes the state of another.
C11_StatePerAttempt == []C11_OwnState /\ [][C11_Step]_vars

\* An anonymous operation is offered anonymous access for the first time and
\* goes on, while another operation in progress has already asked.
C11_Witness ==
    /\ prompt.some /\ Prompted.anonymous /\ prompt.v.anonymous_supported
    /\ prompt.v.state = Unasked
    /\ Prompted.replies = <<"Handled">>
    /\ \E j \in DOMAIN mounts :
           /\ j # prompt.v.op
           /\ mounts[j].mount_op.some
           /\ mounts[j].mount_op.v.state = AskedOnce

----------------------------------------------------------------------------
\* Properties of the closure under repeated deliveries

\* This step hands the closure a message about a mount it was already handed
\* a message about.
ReceivesAgain ==
    /\ pc = "run" /\ pc' = "run"
    /\ chan # <<>> /\ chan' = Tail(chan)
    /\ TimesReceived(Head(chan).path) >= 1

\* C12 as stated: a second delivery of the outcome of a mount leaves
\* mounts_left and the failures as they were after the first.
C12_Idempotent ==
    [][ReceivesAgain => (mounts_left' = mounts_left /\ mu' = mu)]_vars

\* C12, amended: the closure counts every delivery: a second delivery of
\* the outcome of a mount lowers mounts_left by one more and, if it is a
\* failure, adds it to the failures once more.
C12_EveryDeliveryCounts ==
    [][ReceivesAgain =>
          /\ mounts_left' = mounts_left - 1
          /\ mu' = IF Head(chan).status.tag = "Error"
                   THEN Append(mu, Head(chan)) ELSE mu]_vars

\* The failure of one mount was delivered twice and is held twice, and the
\* loop was quit with another mount still in progress.
C12_Witness ==
    /\ loop_quit /\ mounts_left = 0
    /\ \E i, j \in DOMAIN mounts :
           /\ Failed(i)
           /\ TimesReceived(mounts[i].path) = 2
           /\ Len(SelectSeq(mu, LAMBDA x : x.path = mounts[i].path)) = 2
           /\ ~mounts[j].result.some

----------------------------------------------------------------------------
\* Properties of the return value and of the log

\* C13: when the mounts file cannot be read, main returns ParseError having
\* started no mount, attached no receiver and run no loop; when it can, main
\* returns Ok exactly when the evaluation of the failures found no error,
\* and never ParseError.
C13_ParseErrorBeforeDispatch ==
    /\ (~content.ok /\ pc # "parse") =>
           /\ pc = "done" /\ result = "ParseError"
           /\ mounts = <<>> /\ parsed_entries = <<>>
           /\ rx = "none" /\ chan = <<>> /\ ~loop_quit
    /\ (content.ok /\ pc = "done") =>
           /\ result \in {"Ok", "MountError"}
           /\ result = "Ok" <=> ~had_error(mu, FALSE)
           /\ result = "Ok" <=> \A i \in DOMAIN mounts : ~Fatal(i)

\* The file could not be read: main has returned ParseError and no mount
\* was started.
C13_Witness ==
    /\ ~content.ok /\ pc = "done" /\ result = "ParseError"
    /\ mounts = <<>> /\ rx = "none"

\* The number of lines of the log about the outcome of the mount of path:
\* those of the closure and those of the evaluation of the failures.
OutcomeEvents(path) ==
    TimesReceived(path) + CopiesIn(Line("warn", "Mount process failed", path), log)

C15_EmptyListReturns ==
    (pc = "run" /\ Entries = 0) => ENABLED Evaluate

----------------------------------------------------------------------------
\* Properties of the failures held and of the dispatch

\* This step hands the closure the oldest message of the channel.
Receives == pc = "run" /\ chan # <<>> /\ chan' = Tail(chan)

\* The messages about path that are in the channel.
InChannel(path) == SelectSeq(chan, LAMBDA x : x.path = path)

\* C16 (state part): the failures held are the failures the closure was
\* handed, each once, and none is a success; the counter and the number of
\* messages handed to the closure add up to the number of entries; when main
\* returns, the failures and the successes add up to the number of entries.
C16_Held ==
    (content.ok /\ pc # "parse") =>
        /\ mounts_left + Received = Entries
        /\ \A k \in 1..Len(mu) :
               /\ mu[k].status.tag = "Error"
               /\ CopiesIn(Line("warn", "Failed when mounting", mu[k].path), log) = 1
               /\ \E i \in DOMAIN mounts :
                      Failed(i) /\ mu[k] = mount_handled_msg(mounts[i], mounts[i].result.v)
               /\ \A l \in 1..Len(mu) : mu[l].path = mu[k].path => l = k
        /\ \A i \in DOMAIN mounts :
               (Failed(i) /\ TimesReceived(mounts[i].path) = 1) =>
                   \E k \in 1..Len(mu) : mu[k].path = mounts[i].path
        /\ Decided =>
               Len(mu) + Cardinality({i \in DOMAIN mounts : Succeeded(i)}) = Entries

\* C16 (step part): the closure puts a failure it is handed behind the
\* failures held, and leaves them as they are when handed a success.
C16_Step ==
    Receives => mu' = IF Head(chan).status.tag = "Error"
                      THEN Append(mu, Head(chan)) ELSE mu

\* C16: the failures held are exactly the failures handed to the closure,
\* each once, in the order of arrival.
C16_FailuresInArrivalOrder == []C16_Held /\ [][C16_Step]_vars

\* main has returned after three mounts, two of them held as failures.
C16_Witness ==
    /\ Decided /\ Entries = 3 /\ Len(mu) = 2
    /\ \E i \in DOMAIN mounts : Succeeded(i)

\* C17: the closure is handed a message only after handle_mount was called
\* for every entry; handle_mount can be called for the next entry whatever
\* state the mounts started before are in; and the message of a mount that
\* has ended is in the channel until the closure is handed it, also when it
\* was sent before the receiver was attached.
C17_FanOut ==
    /\ Received > 0 => (parsed_entries = <<>> /\ Len(mounts) = Entries)
    /\ (pc = "dispatch" /\ parsed_entries # <<>> /\ ~prompt.some) => ENABLED HandleMount
    /\ \A i \in DOMAIN mounts :
           mounts[i].result.some =>
               /\ Len(InChannel(mounts[i].path)) + TimesReceived(mounts[i].path) = 1
               /\ \A k \in 1..Len(InChannel(mounts[i].path)) :
                      InChannel(mounts[i].path)[k]
                          = mount_handled_msg(mounts[i], mounts[i].result.v)

\* handle_mount is still to be called for an entry while the message of a
\* mount that has ended waits in the channel and another mount is in
\* progress.
C17_Witness ==
    /\ pc = "dispatch" /\ parsed_entries # <<>>
    /\ chan # <<>>
    /\ \E i \in DOMAIN mounts : ~mounts[i].result.some

\* C18: a prompt that does not offer anonymous access to an anonymous
\* operation is answered Handled when KRB5CCNAME is set and Aborted when it
\* is not, whether the state is Unasked or AskedOnce, and leaves the state
\* as it was; a prompt that offers it while the state is Unasked is
\* answered Handled for anonymous access.
C18_UnsupportedPromptUsesTicket ==
    (prompt.some /\ Prompted.anonymous) =>
        /\ ~prompt.v.anonymous_supported =>
               /\ Prompted.replies = <<IF prompt.v.krb5ccname THEN "Handled" ELSE "Aborted">>
               /\ Prompted.state = prompt.v.state
        /\ (prompt.v.anonymous_supported /\ prompt.v.state = Unasked) =>
               /\ Len(Prompted.replies) = 1
               /\ ProceedsAnonymously(Prompted, prompt.v, Prompted.replies[1])

\* An anonymous operation that has asked once is prompted without the offer
\* of anonymous access, with KRB5CCNAME set, and goes on with the ticket.
C18_Witness ==
    /\ prompt.some /\ Prompted.anonymous /\ ~prompt.v.anonymous_supported
    /\ prompt.v.state = AskedOnce /\ Prompted.state = AskedOnce
    /\ prompt.v.krb5ccname
    /\ ProceedsWithTicket(Prompted, prompt.v, Prompted.replies[1])

\* C19 (state part): the counter never leaves 0..Entries, the subtraction
\* never overflows, and once the loop is quit the counter is 0 and the
\* receiver is gone.
C19_NoUnderflow ==
    /\ pc # "panic"
    /\ pc # "parse" => mounts_left \in 0..Entries
    /\ loop_quit => (mounts_left = 0 /\ rx = "removed")

\* C19 (step part): once the loop is quit no message is handed to the
\* closure: the channel, the counter and the failures stay as they are, and
\* so does the return value once main has returned.
C19_Step ==
    /\ loop_quit =>
           /\ loop_quit' /\ chan' = chan
           /\ mounts_left' = mounts_left /\ mu' = mu
           /\ verdict(mu') = verdict(mu)
    /\ result # "none" => result' = result

\* C19: after the counter has reached 0 the closure is called no more,
\* also when a mount is completed again or late.
C19_StopsAtZero == []C19_NoUnderflow /\ [][C19_Step]_vars

\* main has returned while a message delivered a second time is left in the
\* channel.
C19_Witness ==
    /\ Decided /\ mounts_left = 0 /\ duplicates > 0
    /\ chan # <<>>

====
